---- MODULE Spec2Model ----
(***************************************************************************)
(* A model of the texture utilities of blender_texture_extraction:         *)
(*   scripts/extract_textures.py        extract_textures_from_glb          *)
(*   scripts/update_mtl_and_textures.py main                               *)
(*                                                                         *)
(* Text is a sequence of lexemes: a word such as "image" or "png" is one   *)
(* element, every separator the code looks at ("data:", ",", "/", ";",     *)
(* ".png", "Material_") is an element of its own, and a base64 payload is  *)
(* one element per character.  Bytes are the integers 0..255.              *)
(* Python's None and "" are both falsy where the code tests them, and are  *)
(* both the empty sequence here.                                           *)
(***************************************************************************)
EXTENDS Integers, Sequences, FiniteSets, TLC

\* ---------------------------------------------------------------- bounds
MaxImages == 2
MaxLines == 3

VARIABLES
    glb,                    \* the container file on disk (never written)
    gltf,                   \* the parsed container, GLTF2.load's result
    outdir,                 \* the output directory: "exists", "absent" or "uncreatable"
    files,                  \* the output directory: file name -> bytes
    log,                    \* what the run printed, in order
    pc,                     \* position in extract_textures_from_glb
    i,                      \* the loop index of enumerate(gltf.images)
    attempted,              \* the indices whose loop body has run, in order
    rerun,                  \* FALSE in the first invocation, TRUE in the second
    mtl,                    \* the lines of the material file
    textureDir,             \* os.listdir(texture_dir)
    materials,              \* main's list of material names
    material_texture_map,   \* main's dict: material name -> texture file name
    renamedDir,             \* the file names in renamed_textures
    current_material,       \* main's current_material (<<>> is None)
    outfile,                \* what main has written to the updated file, in order
    k,                      \* the number of lines main's current loop has consumed
    mpc                     \* position in main

extractVars == <<glb, gltf, outdir, files, log, pc, i, attempted, rerun>>
mtlVars == <<mtl, textureDir, materials, material_texture_map, renamedDir,
             current_material, outfile, k, mpc>>
vars == <<glb, gltf, outdir, files, log, pc, i, attempted, rerun,
          mtl, textureDir, materials, material_texture_map, renamedDir,
          current_material, outfile, k, mpc>>

\* ------------------------------------------------------- Python built-ins

RECURSIVE Find(_, _, _)
\* str.find from position p (1-based): the first position of c, 0 when absent
Find(s, c, p) ==
    IF p > Len(s) THEN 0
    ELSE IF s[p] = c THEN p
    ELSE Find(s, c, p + 1)

RECURSIVE RFind(_, _, _)
\* str.rfind scanning down from position p: the last position of c, 0 when absent
RFind(s, c, p) ==
    IF p < 1 THEN 0
    ELSE IF s[p] = c THEN p
    ELSE RFind(s, c, p - 1)

\* s.split(sep, 1): one part when sep is absent, else the text before the
\* first sep and everything after it
SplitOnce_last(s, sep) ==
    LET p == RFind(s, sep, Len(s)) IN
    IF p = 0 THEN <<s>>
    ELSE <<SubSeq(s, 1, p - 1), SubSeq(s, p + 1, Len(s))>>

SplitOnce(s, sep) ==
    LET p == Find(s, sep, 1) IN
    IF p = 0 THEN <<s>>
    ELSE <<SubSeq(s, 1, p - 1), SubSeq(s, p + 1, Len(s))>>

\* s.split(sep)[-1]: the text after the last sep (all of s when sep is absent)
SplitLast(s, sep) == SubSeq(s, RFind(s, sep, Len(s)) + 1, Len(s))

\* s.split(sep)[0]: the text before the first sep (all of s when sep is absent)
SplitFirst(s, sep) ==
    LET p == Find(s, sep, 1) IN
    IF p = 0 THEN s ELSE SubSeq(s, 1, p - 1)

Min(a, b) == IF a <= b THEN a ELSE b

\* data[start:end] for start, end >= 0: Python clamps both to len(data)
PySlice_noEnd(data, start, end) ==
    SubSeq(data, Min(start, Len(data)) + 1, Min(end - start, Len(data)))

PySlice(data, start, end) ==
    SubSeq(data, Min(start, Len(data)) + 1, Min(end, Len(data)))

\* The value of a base64 alphabet character; 64 for any other character.
B64Val(c) ==
    CASE c = "A" -> 0
      [] c = "B" -> 1
      [] c = "D" -> 3
      [] c = "I" -> 8
      [] c = "J" -> 9
      [] c = "Q" -> 16
      [] c = "U" -> 20
      [] c = "/" -> 63
      [] OTHER -> 64

RECURSIVE A2B(_, _, _, _, _, _)
\* binascii.a2b_base64 in its default (non-strict) mode, which is what
\* base64.b64decode(s) calls: characters outside the alphabet are dropped,
\* padding that completes a quad ends the data, and a quad left open at the
\* end raises binascii.Error.
A2B(s, p, quad, left, pads, out) ==
    IF p > Len(s)
    THEN [ok |-> quad = 0, data |-> out]
    ELSE IF s[p] = "="
    THEN IF quad >= 2
         THEN IF quad + pads + 1 >= 4
              THEN [ok |-> TRUE, data |-> out]
              ELSE A2B(s, p + 1, quad, left, pads + 1, out)
         ELSE A2B(s, p + 1, quad, left, pads, out)
    ELSE LET v == B64Val(s[p]) IN
         IF v >= 64 THEN A2B(s, p + 1, quad, left, pads, out)
         ELSE CASE quad = 0 -> A2B(s, p + 1, 1, v, 0, out)
                [] quad = 1 -> A2B(s, p + 1, 2, v % 16, 0,
                                   Append(out, left * 4 + (v \div 16)))
                [] quad = 2 -> A2B(s, p + 1, 3, v % 4, 0,
                                   Append(out, left * 16 + (v \div 4)))
                [] OTHER    -> A2B(s, p + 1, 0, 0, 0,
                                   Append(out, left * 64 + v))

\* base64.b64decode(s): [ok, data]; ok = FALSE stands for binascii.Error
b64decode(s) == A2B(s, 1, 0, 0, 0, <<>>)

\* ------------------------------------------------------------ containers

\* The GLB's embedded binary chunk, and the bytes behind a buffer's own URI.
\* gltf.binary_blob is read as the code's comment describes it: an attribute
\* holding the chunk's bytes, or None when the container has no chunk.
Blob == <<137, 80, 78, 71, 13, 10>>
UriBytes == <<255, 216, 255, 224>>

\* A buffer: its uri (<<>> when absent) and what
\* gltf.get_data_from_buffer_uri(uri) does for it: returns bytes ("bytes"),
\* returns None ("none") or raises ("raise").
Buffers ==
    << [uri |-> <<>>,                  fetch |-> "none",  data |-> <<>>],
       [uri |-> <<"side", ".bin">>,    fetch |-> "bytes", data |-> UriBytes],
       [uri |-> <<"gone", ".bin">>,    fetch |-> "raise", data |-> <<>>],
       [uri |-> <<"odd", ":", "x">>,   fetch |-> "none",  data |-> <<>>] >>

\* Buffer views; hasByteOffset = FALSE is a view object without the attribute.
BufferViews ==
    << [buffer |-> 0, hasByteOffset |-> TRUE,  byteOffset |-> 1, byteLength |-> 3],
       [buffer |-> 0, hasByteOffset |-> FALSE, byteOffset |-> 0, byteLength |-> 2],
       [buffer |-> 0, hasByteOffset |-> TRUE,  byteOffset |-> 4, byteLength |-> 5],
       [buffer |-> 0, hasByteOffset |-> TRUE,  byteOffset |-> 8, byteLength |-> 1],
       [buffer |-> 1, hasByteOffset |-> TRUE,  byteOffset |-> 2, byteLength |-> 2],
       [buffer |-> 2, hasByteOffset |-> TRUE,  byteOffset |-> 0, byteLength |-> 1],
       [buffer |-> 3, hasByteOffset |-> TRUE,  byteOffset |-> 0, byteLength |-> 1],
       [buffer |-> 7, hasByteOffset |-> TRUE,  byteOffset |-> 0, byteLength |-> 1] >>

\* The scenes an image list is paired with: no buffers at all, the buffers
\* above with the embedded chunk present, and the same with it missing.
Scenes ==
    { [buffers |-> <<>>,    bufferViews |-> <<>>,        has_blob |-> FALSE, binary_blob |-> <<>>],
      [buffers |-> Buffers, bufferViews |-> BufferViews, has_blob |-> TRUE,  binary_blob |-> Blob],
      [buffers |-> Buffers, bufferViews |-> BufferViews, has_blob |-> FALSE, binary_blob |-> <<>>] }

Header == <<"data:", "image", "/", "png", ";", "base64">>

Uris ==
    { Header \o <<",", "Q", "U", "J", "D">>,
      <<"data:", "image", "/", "jpeg", ",", "Q", "Q", "=", "=">>,
      Header \o <<",", "Q", "U", "J", "D", ",", "Q", "U", "I", "=">>,
      Header,
      Header \o <<",", "Q", "Q">>,
      <<"data:", ";", "base64", ",", "Q", "U", "I", "=">>,
      <<"data:", "a", "/", "b", "/", "gif", ";", "x", ";", "base64", ",", "/", "/", "/", "/">>,
      <<"tex", ".png">> }

Image(uri, hasView, view, mime) ==
    [uri |-> uri, hasBufferView |-> hasView, bufferView |-> view, mimeType |-> mime]

\* The image descriptors a container draws from. mimeType "" is None.
Descriptors ==
    { Image(u, FALSE, 0, "") : u \in Uris }
    \cup { Image(Header \o <<",", "Q", "U", "J", "D">>, TRUE, v, "image/jpeg") : v \in {0, 8} }
    \cup { Image(<<>>, TRUE, v, "image/jpeg") : v \in 0..8 }
    \cup { Image(<<>>, TRUE, 0, m) : m \in {"image/png", "image/webp", "image/gif", ""} }
    \cup { Image(<<>>, FALSE, 0, "image/png") }

SeqsUpTo(S, n) == UNION { [1..m -> S] : m \in 0..n }

\* What is on disk at glb_file: a container, a file GLTF2.load cannot
\* parse, or nothing.
NoGltf == [images |-> <<>>, buffers |-> <<>>, bufferViews |-> <<>>,
           has_blob |-> FALSE, binary_blob |-> <<>>]

GlbFiles ==
    { [status |-> "ok", images |-> im, buffers |-> sc.buffers,
       bufferViews |-> sc.bufferViews, has_blob |-> sc.has_blob,
       binary_blob |-> sc.binary_blob] : im \in SeqsUpTo(Descriptors, MaxImages), sc \in Scenes }
    \cup { [status |-> st, images |-> <<>>, buffers |-> <<>>, bufferViews |-> <<>>,
            has_blob |-> FALSE, binary_blob |-> <<>>] : st \in {"missing", "corrupt"} }

\* GLTF2.load's result for a file that parses
Parsed(f) == [images |-> f.images, buffers |-> f.buffers, bufferViews |-> f.bufferViews,
              has_blob |-> f.has_blob, binary_blob |-> f.binary_blob]

\* ----------------------------------------------- extract_textures_from_glb

Msg(text, idx, detail) == [text |-> text, idx |-> idx, detail |-> detail]

\* The result of one pass through the loop body: "write" (a file is written),
\* "skip" (nothing written, no exception) or "error" (an exception reached
\* the except clause); msgs is what the pass prints.
Outcome(kind, name, data, msgs) == [kind |-> kind, name |-> name, data |-> data, msgs |-> msgs]

Raised(idx, err) == Outcome("error", <<>>, <<>>, <<Msg("Error extracting image", idx, <<err>>)>>)

\* f"texture_{i}.{extension}"
FileName_noIndex(idx, extension) == <<"texture_", "0", ".">> \o extension

FileName(idx, extension) == <<"texture_", ToString(idx), ".">> \o extension

\* the extension chosen from image.mimeType
Extension(mimeType) ==
    CASE mimeType = "image/jpeg" -> <<"jpg">>
      [] mimeType = "image/png"  -> <<"png">>
      [] mimeType = "image/webp" -> <<"webp">>
      [] OTHER -> <<"bin">>

\* the data: URI branch
FromDataUri(uri, idx) ==
    LET parts == SplitOnce(uri, ",") IN
    IF Len(parts) # 2 THEN Raised(idx, "ValueError")
    ELSE LET content_type == parts[1]
             b64data == parts[2]
             img == b64decode(b64data)
         IN  IF ~img.ok THEN Raised(idx, "binascii.Error")
             ELSE LET extension == SplitFirst(SplitLast(content_type, "/"), ";")
                      filename == FileName(idx, extension)
                  IN  Outcome("write", filename, img.data,
                              <<Msg("Extracted from data URI", idx, filename)>>)

\* the bufferView branch
FromBufferView(g, image, idx) ==
    IF image.bufferView >= Len(g.bufferViews) THEN Raised(idx, "IndexError")
    ELSE LET buffer_view == g.bufferViews[image.bufferView + 1] IN
    IF buffer_view.buffer >= Len(g.buffers) THEN Raised(idx, "IndexError")
    ELSE LET buffer == g.buffers[buffer_view.buffer + 1] IN
    IF buffer.uri # <<>> /\ buffer.fetch = "raise" THEN Raised(idx, "OSError")
    ELSE LET has_data == IF buffer.uri # <<>> THEN buffer.fetch = "bytes" ELSE g.has_blob
             buffer_data == IF buffer.uri # <<>> THEN buffer.data ELSE g.binary_blob
         IN
    IF ~has_data
    THEN Outcome("skip", <<>>, <<>>, <<Msg("Could not get binary data for image", idx, <<>>)>>)
    ELSE LET start == IF buffer_view.hasByteOffset THEN buffer_view.byteOffset ELSE 0
             length == buffer_view.byteLength
             end == start + length
             img_data == PySlice(buffer_data, start, end)
             filename == FileName(idx, Extension(image.mimeType))
         IN  Outcome("write", filename, img_data,
                     <<Msg("Extracted from buffer view", idx, filename)>>)

\* the body of the try block for the image at index idx
LoopBody(g, idx) ==
    LET image == g.images[idx + 1] IN
    IF image.uri # <<>>
    THEN IF Head(image.uri) = "data:"
         THEN FromDataUri(image.uri, idx)
         ELSE Outcome("skip", <<>>, <<>>,
                      <<Msg("Image references external file", idx, image.uri)>>)
    ELSE IF image.hasBufferView
    THEN FromBufferView(g, image, idx)
    ELSE Outcome("skip", <<>>, <<>>, <<>>)

\* open(path, 'wb') and f.write(data): the file is created or replaced
WriteFile_append(fs, name, data) ==
    [n \in DOMAIN fs \cup {name} |->
        IF n = name THEN (IF name \in DOMAIN fs THEN fs[name] \o data ELSE data)
        ELSE fs[n]]

WriteFile(fs, name, data) ==
    [n \in DOMAIN fs \cup {name} |-> IF n = name THEN data ELSE fs[n]]

NoFiles == [n \in {} |-> <<>>]

Init ==
    /\ glb \in GlbFiles
    /\ gltf = NoGltf
    /\ outdir \in {"exists", "absent", "uncreatable"}
    /\ files = NoFiles
    /\ log = <<>>
    /\ pc = "load"
    /\ i = 0
    /\ attempted = <<>>
    /\ rerun = FALSE
    /\ mtl = <<>>
    /\ textureDir = {}
    /\ materials = <<>>
    /\ material_texture_map = NoFiles
    /\ renamedDir = {}
    /\ current_material = <<>>
    /\ outfile = <<>>
    /\ k = 0
    /\ mpc = "idle"

\* GLTF2.load(glb_file): a missing or unparseable file raises, and nothing
\* in the function catches it.
Load_swallow ==
    /\ pc = "load"
    /\ log' = Append(log, Msg("Loading GLB file", -1, <<>>))
    /\ gltf' = IF glb.status = "ok" THEN Parsed(glb) ELSE NoGltf
    /\ pc' = "mkdir"
    /\ UNCHANGED <<glb, outdir, files, i, attempted, rerun>>
    /\ UNCHANGED mtlVars

Load ==
    /\ pc = "load"
    /\ log' = Append(log, Msg("Loading GLB file", -1, <<>>))
    /\ IF glb.status = "ok"
       THEN gltf' = Parsed(glb) /\ pc' = "mkdir"
       ELSE gltf' = gltf /\ pc' = "fatal"
    /\ UNCHANGED <<glb, outdir, files, i, attempted, rerun>>
    /\ UNCHANGED mtlVars

\* if not os.path.exists(output_dir): os.makedirs(output_dir)
MakeDir ==
    /\ pc = "mkdir"
    /\ IF outdir = "exists" THEN outdir' = outdir /\ pc' = "checkBuffers"
       ELSE IF outdir = "absent" THEN outdir' = "exists" /\ pc' = "checkBuffers"
       ELSE outdir' = outdir /\ pc' = "fatal"
    /\ UNCHANGED <<glb, gltf, files, log, i, attempted, rerun>>
    /\ UNCHANGED mtlVars

\* if not gltf.buffers: report and return
CheckBuffers_noReturn ==
    /\ pc = "checkBuffers"
    /\ pc' = "checkImages"
    /\ log' = IF gltf.buffers = <<>>
              THEN Append(log, Msg("No buffers found in the GLB file.", -1, <<>>))
              ELSE log
    /\ UNCHANGED <<glb, gltf, outdir, files, i, attempted, rerun>>
    /\ UNCHANGED mtlVars

CheckBuffers ==
    /\ pc = "checkBuffers"
    /\ IF gltf.buffers = <<>>
       THEN /\ log' = Append(log, Msg("No buffers found in the GLB file.", -1, <<>>))
            /\ pc' = "done"
       ELSE /\ log' = log
            /\ pc' = "checkImages"
    /\ UNCHANGED <<glb, gltf, outdir, files, i, attempted, rerun>>
    /\ UNCHANGED mtlVars

\* if not gltf.images: report and return; else report how many there are
CheckImages ==
    /\ pc = "checkImages"
    /\ IF gltf.images = <<>>
       THEN /\ log' = Append(log, Msg("No images found in the GLB file.", -1, <<>>))
            /\ pc' = "done"
       ELSE /\ log' = Append(log, Msg("Found images in the GLB file.", -1,
                                      <<ToString(Len(gltf.images))>>))
            /\ pc' = "loop"
    /\ UNCHANGED <<glb, gltf, outdir, files, i, attempted, rerun>>
    /\ UNCHANGED mtlVars

\* One iteration of the for loop: the try block and its except clause,
\* which prints and lets the loop go on.
ProcessImage_propagate ==
    /\ pc = "loop"
    /\ i < Len(gltf.images)
    /\ LET o == LoopBody(gltf, i) IN
        /\ files' = IF o.kind = "write" THEN WriteFile(files, o.name, o.data) ELSE files
        /\ log' = log \o o.msgs
        /\ pc' = IF o.kind = "error" THEN "fatal" ELSE "loop"
    /\ attempted' = Append(attempted, i)
    /\ i' = i + 1
    /\ UNCHANGED <<glb, gltf, outdir, rerun>>
    /\ UNCHANGED mtlVars

ProcessImage ==
    /\ pc = "loop"
    /\ i < Len(gltf.images)
    /\ LET o == LoopBody(gltf, i) IN
        /\ files' = IF o.kind = "write" THEN WriteFile(files, o.name, o.data) ELSE files
        /\ log' = log \o o.msgs
    /\ attempted' = Append(attempted, i)
    /\ i' = i + 1
    /\ pc' = "loop"
    /\ UNCHANGED <<glb, gltf, outdir, rerun>>
    /\ UNCHANGED mtlVars

\* the loop is exhausted: the closing print, and the function returns
Finish ==
    /\ pc = "loop"
    /\ i = Len(gltf.images)
    /\ log' = Append(log, Msg("Texture extraction complete.", -1, <<>>))
    /\ pc' = "done"
    /\ UNCHANGED <<glb, gltf, outdir, files, i, attempted, rerun>>
    /\ UNCHANGED mtlVars

\* the script is run a second time on the same container and directory
Rerun ==
    /\ pc \in {"done", "fatal"}
    /\ ~rerun
    /\ rerun' = TRUE
    /\ pc' = "load"
    /\ gltf' = NoGltf
    /\ log' = <<>>
    /\ i' = 0
    /\ attempted' = <<>>
    /\ UNCHANGED <<glb, outdir, files>>
    /\ UNCHANGED mtlVars

Next ==
    \/ Load
    \/ MakeDir
    \/ CheckBuffers
    \/ CheckImages
    \/ ProcessImage
    \/ Finish
    \/ Rerun

Spec == Init /\ [][Next]_vars

\* --------------------------------------------- properties of the extractor

N == Len(glb.images)

Img(idx) == glb.images[idx + 1]

WasAttempted(idx) == \E j \in 1..Len(attempted) : attempted[j] = idx

\* the files of the output directory named texture_<idx>.<anything>
FilesOf(idx) ==
    { n \in DOMAIN files :
        Len(n) >= 3 /\ n[1] = "texture_" /\ n[2] = ToString(idx) /\ n[3] = "." }

Logged(idx) == \E j \in 1..Len(log) : log[j].idx = idx

LoggedText(text) == \E j \in 1..Len(log) : log[j].text = text

\* The descriptor has no URI and a buffer view that names a view and a
\* buffer of the container whose bytes can be obtained.
HasReadableView(idx) ==
    /\ Img(idx).uri = <<>>
    /\ Img(idx).hasBufferView
    /\ Img(idx).bufferView < Len(glb.bufferViews)
    /\ LET bv == glb.bufferViews[Img(idx).bufferView + 1] IN
        /\ bv.buffer < Len(glb.buffers)
        /\ LET b == glb.buffers[bv.buffer + 1] IN
            IF b.uri = <<>> THEN glb.has_blob ELSE b.fetch = "bytes"

ViewBytes(idx) ==
    LET b == glb.buffers[glb.bufferViews[Img(idx).bufferView + 1].buffer + 1] IN
    IF b.uri = <<>> THEN glb.binary_blob ELSE b.data

ViewOffset(idx) ==
    LET bv == glb.bufferViews[Img(idx).bufferView + 1] IN
    IF bv.hasByteOffset THEN bv.byteOffset ELSE 0

ViewLength(idx) == glb.bufferViews[Img(idx).bufferView + 1].byteLength

InRangeView(idx) ==
    HasReadableView(idx) /\ ViewOffset(idx) + ViewLength(idx) <= Len(ViewBytes(idx))

OutOfRangeView(idx) ==
    HasReadableView(idx) /\ ViewOffset(idx) + ViewLength(idx) > Len(ViewBytes(idx))

\* bytes [o, o+l) of the view's buffer
ViewPayload(idx) == [j \in 1..ViewLength(idx) |-> ViewBytes(idx)[ViewOffset(idx) + j]]

IsDataUri(idx) == Img(idx).uri # <<>> /\ Img(idx).uri[1] = "data:"

HasComma(idx) == \E p \in 1..Len(Img(idx).uri) : Img(idx).uri[p] = ","

FirstComma(idx) ==
    CHOOSE p \in 1..Len(Img(idx).uri) :
        /\ Img(idx).uri[p] = ","
        /\ \A q \in 1..(p - 1) : Img(idx).uri[q] # ","

UriHeader(idx) == SubSeq(Img(idx).uri, 1, FirstComma(idx) - 1)

UriPayload(idx) == SubSeq(Img(idx).uri, FirstComma(idx) + 1, Len(Img(idx).uri))

\* the part of the header after its last "/" and before any ";"
UriSubtype(idx) ==
    LET h == UriHeader(idx)
        slashes == { p \in 1..Len(h) : h[p] = "/" }
        from == IF slashes = {} THEN 1
                ELSE 1 + CHOOSE p \in slashes : \A q \in slashes : q <= p
        keep == { p \in from..Len(h) : \A q \in from..p : h[q] # ";" }
    IN  [j \in 1..Cardinality(keep) |-> h[from + j - 1]]

DecodableDataUri(idx) == IsDataUri(idx) /\ HasComma(idx) /\ b64decode(UriPayload(idx)).ok

\* C1: with at least one image and one buffer, the descriptors 0..N-1 are
\* attempted once each in increasing order, no attempt ends the run (the
\* run is fatal only before any attempt), and the finished run has
\* attempted all N.
C1_EveryDescriptorAttempted ==
    (glb.status = "ok" /\ N >= 1 /\ glb.buffers # <<>>) =>
        /\ attempted = [j \in 1..Len(attempted) |-> j - 1]
        /\ Len(attempted) <= N
        /\ (pc = "fatal" => attempted = <<>>)
        /\ (pc = "loop" => Len(attempted) = i)
        /\ (pc = "done" => Len(attempted) = N)

\* a finished run of two descriptors in which descriptor 0 raised and
\* descriptor 1 was extracted
C1_Witness ==
    /\ pc = "done"
    /\ N = 2
    /\ \E j \in 1..Len(log) : log[j].idx = 0 /\ log[j].text = "Error extracting image"
    /\ FilesOf(1) # {}

\* C2 (as claimed): an attempted buffer-view descriptor whose offset+length
\* exceeds its buffer's bytes has no texture_<i>.* file and a logged failure.
C2_OutOfRangeSkipped ==
    \A idx \in 0..(N - 1) :
        (glb.status = "ok" /\ WasAttempted(idx) /\ OutOfRangeView(idx)) =>
            /\ FilesOf(idx) = {}
            /\ \E j \in 1..Len(log) : log[j].idx = idx /\ log[j].text # "Extracted from buffer view"

\* C3: after a run on a valid container the directory holds at most N
\* files, each named texture_<i>.<ext> with 0 <= i < N, and each resolved
\* descriptor has exactly one file, holding its payload.
C3_OneFilePerResolved ==
    (glb.status = "ok" /\ pc = "done") =>
        /\ Cardinality(DOMAIN files) <= N
        /\ \A n \in DOMAIN files : \E idx \in 0..(N - 1) : n \in FilesOf(idx)
        /\ \A idx \in 0..(N - 1) :
            /\ (WasAttempted(idx) /\ DecodableDataUri(idx)) =>
                 /\ Cardinality(FilesOf(idx)) = 1
                 /\ \A n \in FilesOf(idx) : files[n] = b64decode(UriPayload(idx)).data
            /\ (WasAttempted(idx) /\ InRangeView(idx)) =>
                 /\ Cardinality(FilesOf(idx)) = 1
                 /\ \A n \in FilesOf(idx) : files[n] = ViewPayload(idx)

\* a finished run in which two descriptors of the same MIME type were resolved
C3_Witness ==
    /\ pc = "done"
    /\ N = 2
    /\ InRangeView(0) /\ InRangeView(1)
    /\ Img(0).mimeType = Img(1).mimeType
    /\ Cardinality(DOMAIN files) = 2

\* C4: an attempted descriptor with no URI and an in-range buffer view has
\* the file texture_<i>.<ext>, ext chosen by its MIME type, holding exactly
\* bytes [o, o+l) of the buffer, and no other file of its index.
C4_BufferViewBytes ==
    \A idx \in 0..(N - 1) :
        (glb.status = "ok" /\ WasAttempted(idx) /\ InRangeView(idx)) =>
            LET mime == Img(idx).mimeType
                ext == IF mime = "image/jpeg" THEN "jpg"
                       ELSE IF mime = "image/png" THEN "png"
                       ELSE IF mime = "image/webp" THEN "webp"
                       ELSE "bin"
                name == <<"texture_", ToString(idx), ".", ext>>
            IN  /\ FilesOf(idx) = {name}
                /\ files[name] = ViewPayload(idx)

\* an extracted view with a non-zero offset that ends before its buffer does
C4_Witness ==
    /\ pc = "done"
    /\ \E idx \in 0..(N - 1) :
        /\ WasAttempted(idx) /\ InRangeView(idx)
        /\ ViewOffset(idx) > 0
        /\ ViewOffset(idx) + ViewLength(idx) < Len(ViewBytes(idx))
        /\ Img(idx).mimeType = "image/jpeg"
        /\ FilesOf(idx) # {}

\* C5: an attempted descriptor whose URI starts with "data:", has a comma
\* and a payload that decodes has the file texture_<i>.<subtype> holding
\* the decoding of everything after the first comma, whatever its buffer
\* view is, and no other file of its index.
C5_DataUriDecoded ==
    \A idx \in 0..(N - 1) :
        (glb.status = "ok" /\ WasAttempted(idx) /\ DecodableDataUri(idx)) =>
            LET name == <<"texture_", ToString(idx), ".">> \o UriSubtype(idx) IN
            /\ FilesOf(idx) = {name}
            /\ files[name] = b64decode(UriPayload(idx)).data

\* an extracted data URI with a second comma in its payload, and one whose
\* descriptor also names a buffer view that does not exist
C5_Witness ==
    /\ pc = "done"
    /\ N = 2
    /\ DecodableDataUri(0) /\ DecodableDataUri(1)
    /\ \E p \in (FirstComma(0) + 1)..Len(Img(0).uri) : Img(0).uri[p] = ","
    /\ Img(1).hasBufferView /\ Img(1).bufferView >= Len(glb.bufferViews)
    /\ Cardinality(DOMAIN files) = 2

\* C6: a parsed container with no images or no buffers never enters the
\* loop, has no descriptor attempted and no file written, fails only if the
\* directory cannot be made, and ends having reported the condition.
C6_NothingToExtract ==
    (glb.status = "ok" /\ (N = 0 \/ glb.buffers = <<>>)) =>
        /\ attempted = <<>>
        /\ files = NoFiles
        /\ pc \in {"load", "mkdir", "checkBuffers", "checkImages", "done", "fatal"}
        /\ (pc = "checkImages" => glb.buffers # <<>>)
        /\ (pc = "fatal" => outdir = "uncreatable")
        /\ (pc = "done" =>
              IF glb.buffers = <<>>
              THEN LoggedText("No buffers found in the GLB file.")
              ELSE LoggedText("No images found in the GLB file."))

\* a finished run on a container with no buffers whose images are data URIs
C6_Witness ==
    /\ pc = "done"
    /\ glb.buffers = <<>>
    /\ N = 2
    /\ DecodableDataUri(0) /\ DecodableDataUri(1)

\* C7 (as claimed): an attempted descriptor with neither URI nor buffer view
\* has no file, a logged message of its own, and does not end the run.
C7_UnresolvableLogged ==
    \A idx \in 0..(N - 1) :
        (glb.status = "ok" /\ WasAttempted(idx)
            /\ Img(idx).uri = <<>> /\ ~Img(idx).hasBufferView) =>
            /\ FilesOf(idx) = {}
            /\ pc # "fatal"
            /\ Logged(idx)

\* C8: from the start of the second run on, no step changes the output
\* directory's names or contents, and the second run does not fail where
\* the first did not.
C8_Idempotent ==
    [][rerun' =>
        /\ files' = files
        /\ (pc' = "fatal" => glb.status # "ok" \/ outdir' = "uncreatable")]_vars

\* a second run that has finished over the two files the first one wrote
C8_Witness ==
    /\ rerun
    /\ pc = "done"
    /\ Len(attempted) = 2
    /\ Cardinality(DOMAIN files) = 2

\* C9: a missing or unparseable container sends the run from its load step
\* straight to the fatal end, and an uncreatable directory from its mkdir
\* step; in such a run no step changes the directory or its files (a parse
\* failure leaves the directory uncreated), and no descriptor is attempted.
C9_FatalBeforeImages ==
    [][/\ (glb.status # "ok" /\ pc = "load") => pc' = "fatal"
       /\ (outdir = "uncreatable" /\ pc = "mkdir") => pc' = "fatal"
       /\ (glb.status # "ok" \/ outdir = "uncreatable") =>
            /\ outdir' = outdir
            /\ files' = files /\ files = NoFiles
            /\ attempted' = <<>>
            /\ pc' \in {"load", "mkdir", "fatal"}]_vars

\* an unparseable container has ended the run with the directory still absent
C9_Witness ==
    /\ pc = "fatal"
    /\ glb.status = "corrupt"
    /\ outdir = "absent"

\* ------------------------------------------- update_mtl_and_textures.main

\* A line of the material file is its text, lexeme by lexeme, with " "
\* between words and "\n" at its end; only the file's last line may lack
\* the "\n".
IsSpace(c) == c = " " \/ c = "\n"

RECURSIVE SplitWords(_, _, _)
\* line.strip().split(): the words of the line, p the position being read
\* and word the word read so far
SplitWords(line, p, word) ==
    IF p > Len(line)
    THEN IF word = <<>> THEN <<>> ELSE <<word>>
    ELSE IF IsSpace(line[p])
    THEN (IF word = <<>> THEN <<>> ELSE <<word>>) \o SplitWords(line, p + 1, <<>>)
    ELSE SplitWords(line, p + 1, Append(word, line[p]))

Words(line) == SplitWords(line, 1, <<>>)

\* line.startswith(word)
StartsWith(line, word) == line # <<>> /\ line[1] = word

RECURSIVE CollectMaterials(_, _, _)
\* the first loop over the file: [ok, names]; ok = FALSE is the IndexError
\* of line.strip().split()[1] on a newmtl line without a name
CollectMaterials(lines, p, names) ==
    IF p > Len(lines) THEN [ok |-> TRUE, names |-> names]
    ELSE IF StartsWith(lines[p], "newmtl")
    THEN IF Len(Words(lines[p])) < 2 THEN [ok |-> FALSE, names |-> names]
         ELSE CollectMaterials(lines, p + 1, Append(names, Words(lines[p])[2]))
    ELSE CollectMaterials(lines, p + 1, names)

\* re.search(r'Material_(.+)', material): 0 when there is no match, else
\* the position of the leftmost "Material_" that has text after it
MaterialMatch(material) ==
    LET p == Find(material, "Material_", 1) IN
    IF p = 0 \/ p = Len(material) THEN 0 ELSE p

\* f"Image_{material_suffix}.png"
ExpectedTexture(material) ==
    <<"Image_">> \o SubSeq(material, MaterialMatch(material) + 1, Len(material)) \o <<".png">>

\* f.endswith(".png")
EndsWithPng(f) == f # <<>> /\ f[Len(f)] = ".png"

\* the dict built by the loop over materials, from the .png files listed
BuildMap(names, listing) ==
    LET textures == { f \in listing : EndsWithPng(f) }
        mapped == { names[j] : j \in { q \in 1..Len(names) :
                        /\ MaterialMatch(names[q]) # 0
                        /\ ExpectedTexture(names[q]) \in textures } }
    IN  [m \in mapped |-> ExpectedTexture(m)]

\* f"map_Kd {texture_name}\n" with texture_name = f"{current_material}.png"
MapKdLine(material) == <<"map_Kd", " ">> \o material \o <<".png", "\n">>

MtlLines ==
    { <<"newmtl", " ", "Material_", "0", "\n">>,
      <<"newmtl", " ", "Material_", "1", "\n">>,
      <<"newmtl", " ", "Old", "Material_", "0", "\n">>,
      <<"newmtl", " ", "Wood", "\n">>,
      <<"newmtl", "\n">>,
      <<"illum", " ", "2", "\n">>,
      <<"Kd", " ", "1", " ", "1", " ", "1", "\n">> }

\* the same file with the newline at its very end removed
ChopLast(lines) ==
    [j \in 1..Len(lines) |->
        IF j = Len(lines) THEN SubSeq(lines[j], 1, Len(lines[j]) - 1) ELSE lines[j]]

MtlFiles ==
    LET whole == SeqsUpTo(MtlLines, MaxLines) IN
    whole \cup { ChopLast(f) : f \in whole }

Listings ==
    { {},
      { <<"Image_", "0", ".png">> },
      { <<"Image_", "0", ".png">>, <<"Image_", "1", ".png">>, <<"Image_", "1", ".jpg">> },
      { <<"Image_", "1", ".png">>, <<"Image_", "0", ".jpg">> } }

InitMtl ==
    /\ glb = [status |-> "missing", images |-> <<>>, buffers |-> <<>>, bufferViews |-> <<>>,
              has_blob |-> FALSE, binary_blob |-> <<>>]
    /\ gltf = NoGltf
    /\ outdir = "absent"
    /\ files = NoFiles
    /\ log = <<>>
    /\ pc = "idle"
    /\ i = 0
    /\ attempted = <<>>
    /\ rerun = FALSE
    /\ mtl \in MtlFiles
    /\ textureDir \in Listings
    /\ materials = <<>>
    /\ material_texture_map = NoFiles
    /\ renamedDir = {}
    /\ current_material = <<>>
    /\ outfile = <<>>
    /\ k = 0
    /\ mpc = "read"

\* the first pass over the file, which collects the material names
ReadMaterials ==
    /\ mpc = "read"
    /\ LET r == CollectMaterials(mtl, 1, <<>>) IN
        /\ materials' = r.names
        /\ mpc' = IF r.ok THEN "map" ELSE "crashed"
    /\ UNCHANGED <<mtl, textureDir, material_texture_map, renamedDir, current_material,
                   outfile, k>>
    /\ UNCHANGED extractVars

\* the directory listing and the loop that fills material_texture_map
MapTextures ==
    /\ mpc = "map"
    /\ material_texture_map' = BuildMap(materials, textureDir)
    /\ mpc' = "copy"
    /\ UNCHANGED <<mtl, textureDir, materials, renamedDir, current_material, outfile, k>>
    /\ UNCHANGED extractVars

\* renamed_textures is emptied and each mapped texture copied into it as
\* <material>.png
CopyTextures ==
    /\ mpc = "copy"
    /\ renamedDir' = { m \o <<".png">> : m \in DOMAIN material_texture_map }
    /\ mpc' = "update"
    /\ UNCHANGED <<mtl, textureDir, materials, material_texture_map, current_material,
                   outfile, k>>
    /\ UNCHANGED extractVars

\* one iteration of the loop that writes the updated file
UpdateLine ==
    /\ mpc = "update"
    /\ k < Len(mtl)
    /\ LET line == mtl[k + 1] IN
        IF StartsWith(line, "newmtl")
        THEN /\ current_material' = Words(line)[2]
             /\ outfile' = Append(outfile, line)
        ELSE IF StartsWith(line, "illum") /\ current_material \in DOMAIN material_texture_map
        THEN /\ current_material' = current_material
             /\ outfile' = outfile \o <<line, MapKdLine(current_material)>>
        ELSE /\ current_material' = current_material
             /\ outfile' = Append(outfile, line)
    /\ k' = k + 1
    /\ UNCHANGED <<mtl, textureDir, materials, material_texture_map, renamedDir, mpc>>
    /\ UNCHANGED extractVars

\* both files are closed and main returns
FinishMtl ==
    /\ mpc = "update"
    /\ k = Len(mtl)
    /\ mpc' = "done"
    /\ UNCHANGED <<mtl, textureDir, materials, material_texture_map, renamedDir,
                   current_material, outfile, k>>
    /\ UNCHANGED extractVars

NextMtl ==
    \/ ReadMaterials
    \/ MapTextures
    \/ CopyTextures
    \/ UpdateLine
    \/ FinishMtl

SpecMtl == InitMtl /\ [][NextMtl]_vars

\* --------------------------------------------- properties of the renamer

RECURSIVE Concat(_)
\* the text of a file written as the strings ss, in order
Concat(ss) == IF ss = <<>> THEN <<>> ELSE Head(ss) \o Concat(Tail(ss))

RECURSIVE TextLines(_, _)
\* the lines of a text, without their newlines; cur is the line being read
TextLines(text, cur) ==
    IF text = <<>> THEN (IF cur = <<>> THEN <<>> ELSE <<cur>>)
    ELSE IF Head(text) = "\n" THEN <<cur>> \o TextLines(Tail(text), <<>>)
    ELSE TextLines(Tail(text), Append(cur, Head(text)))

IsNewmtl(j) == mtl[j] # <<>> /\ mtl[j][1] = "newmtl"

IsIllum(j) == mtl[j] # <<>> /\ mtl[j][1] = "illum"

\* line j is an illum line whose most recent preceding newmtl line names a
\* material with a mapped texture
IllumOfMapped(j) ==
    /\ IsIllum(j)
    /\ \E p \in 1..(j - 1) :
        /\ IsNewmtl(p)
        /\ \A q \in (p + 1)..(j - 1) : ~IsNewmtl(q)
        /\ Words(mtl[p])[2] \in DOMAIN material_texture_map

MaterialAt(j) ==
    LET p == CHOOSE p \in 1..(j - 1) :
                 IsNewmtl(p) /\ \A q \in (p + 1)..(j - 1) : ~IsNewmtl(q)
    IN  Words(mtl[p])[2]

RECURSIVE ExpectedLines(_)
\* the input's lines 1..j, each illum line of a mapped material followed
\* by its map_Kd line
ExpectedLines(j) ==
    IF j = 0 THEN <<>>
    ELSE ExpectedLines(j - 1)
         \o TextLines(mtl[j], <<>>)
         \o (IF IllumOfMapped(j)
             THEN << <<"map_Kd", " ">> \o MaterialAt(j) \o <<".png">> >>
             ELSE <<>>)

\* C10 (as claimed): the updated file's lines are the input's lines in
\* order, with map_Kd <material>.png after each illum line of a mapped
\* material and no other line added, removed or changed.
C10_UpdatedFileLines ==
    mpc = "done" => TextLines(Concat(outfile), <<>>) = ExpectedLines(Len(mtl))

\* C10 holds of every file whose last line ends with a newline.
C10_WhenNewlineTerminated ==
    (mpc = "done" /\ (mtl = <<>> \/ mtl[Len(mtl)][Len(mtl[Len(mtl)])] = "\n")) =>
        TextLines(Concat(outfile), <<>>) = ExpectedLines(Len(mtl))

====
